---- MODULE Spec2Model ----
(***************************************************************************)
(* Model of the chat-relay bot in src/main.rs: the startup sequence of     *)
(* main, the gateway dispatching message events to Bot::message, the       *)
(* completion call Bot::ask_gpt and the reply step.  Every invocation of   *)
(* the handler has its own program counter; the completion endpoint, the   *)
(* gateway and the process environment are the nondeterministic inputs.    *)
(***************************************************************************)
EXTENDS Integers, Sequences, FiniteSets, TLC

\* ---------------------------------------------------------------- bounds
\* Number of message events the gateway delivers (one handler invocation each).
MaxMsgs == 2
\* Longest `choices` array a completion response carries.
MaxChoices == 2

\* ------------------------------------------------------- program constants
ERROR_MESSAGE == "Unable to get a response. If this problem continues, please contact the administrator of the bot."
ENDPOINT == "https://api.openai.com/v1/chat/completions"
MODEL == "gpt-3.5-turbo"

\* ----------------------------------------------------------- input domains
MsgIds == 1..MaxMsgs
\* Texts of inbound messages.
Contents == {"hi", "yo"}
\* Texts the completion endpoint puts in a choice.
Answers == {"a", "b"}
\* HTTP statuses the endpoint answers with: one success, one server error.
Statuses == {200, 500}
\* An environment variable that is not set (env::var returns Err).
NotSet == "<unset>"
EnvValues == [DISCORD_TOKEN : {NotSet, "dtok"}, OPENAI_TOKEN : {NotSet, "otok"}]

\* GPTMessage { role, content }
GPTMessage(role, content) == [role |-> role, content |-> content]

\* Choice { message, .. } ; finish_reason and index are never read.
Choice(content) == [message |-> GPTMessage("assistant", content)]

RECURSIVE SeqsUpTo(_, _)
SeqsUpTo(S, n) ==
    IF n = 0 THEN {<<>>}
    ELSE LET shorter == SeqsUpTo(S, n - 1)
         IN  shorter \cup {Append(s, x) : s \in {t \in shorter : Len(t) = n - 1}, x \in S}

\* The `choices` arrays of the bounded responses.
ChoiceSeqs == SeqsUpTo({Choice(a) : a \in Answers}, MaxChoices)

\* What json() reads: a body that does not deserialize as ChatCompletion, or
\* one that does and carries a `choices` array.

NoBody == [kind |-> "none"]
Bodies == {[kind |-> "body", parsed |-> FALSE]}
          \cup {[kind |-> "body", parsed |-> TRUE, choices |-> cs] : cs \in ChoiceSeqs}

\* What send() resolves to: a transport error, or a Response with its status.
NoResponse == [kind |-> "none"]
SendResults == {[kind |-> "network"]}
               \cup {[kind |-> "response", status |-> s] : s \in Statuses}

\* Inbound message events: Message { id, author.bot, content }.
NoMsg == [kind |-> "none"]
Message(id, bot, content) ==
    [kind |-> "message", id |-> id, author_bot |-> bot, content |-> content]

NoBot == [kind |-> "none"]
NoResult == [kind |-> "none"]

VARIABLES
    env,        \* the process environment read by main
    mainPc,     \* position of main
    exitCode,   \* exit code of the process once mainPc = "exited"
    stdout,     \* the lines main and ready have printed
    bot,        \* the Bot value handed to the gateway client
    gateway,    \* number of times main went to the gateway (builder, start)
    msg,        \* msg[i]: the message of invocation i
    pc,         \* pc[i]: position of invocation i of Bot::message
    calls,      \* calls[i]: arguments of the ask_gpt calls of invocation i
    requests,   \* requests[i]: HTTP requests invocation i has sent
    response,   \* response[i]: the Response send() gave invocation i, until json() consumes it
    body,       \* body[i]: the body json() read for invocation i, until it replies
    result,     \* result[i]: what ask_gpt returned to invocation i
    replies     \* replies[i]: msg.reply calls of invocation i

vars == <<env, mainPc, exitCode, stdout, bot, gateway,
          msg, pc, calls, requests, response, body, result, replies>>

mainVars == <<env, mainPc, exitCode, stdout, bot, gateway>>
handlerVars == <<msg, pc, calls, requests, response, body, result, replies>>

\* ------------------------------------------------------------------- main

\* env::var(name).is_err()
IsErrMut(value) == FALSE
IsErr(value) == value = NotSet

\* process::exit(code) after println!(line)
Exit(line, code) ==
    /\ mainPc' = "exited"
    /\ exitCode' = code
    /\ stdout' = stdout \cup {line}

\* main, lines 110-114
MainCheckDiscord ==
    /\ mainPc = "check_discord"
    /\ IF IsErr(env.DISCORD_TOKEN)
       THEN Exit("Expected a discord token in the environment", 1)
       ELSE mainPc' = "check_openai" /\ UNCHANGED <<exitCode, stdout>>
    /\ UNCHANGED <<env, bot, gateway>>
    /\ UNCHANGED handlerVars

\* main, lines 116-120
MainCheckOpenai ==
    /\ mainPc = "check_openai"
    /\ IF IsErr(env.OPENAI_TOKEN)
       THEN Exit("Expected a openai token in the environment", 1)
       ELSE mainPc' = "build" /\ UNCHANGED <<exitCode, stdout>>
    /\ UNCHANGED <<env, bot, gateway>>
    /\ UNCHANGED handlerVars

\* main, lines 122-136: the Bot is built, then Client::builder(..).await,
\* whose failure panics through expect (exit code 101).
MainBuild(ok) ==
    /\ mainPc = "build"
    /\ bot' = [kind |-> "bot", openai_token |-> env.OPENAI_TOKEN, http_client |-> "client"]
    /\ gateway' = gateway + 1
    /\ IF ok
       THEN mainPc' = "start" /\ UNCHANGED <<exitCode, stdout>>
       ELSE Exit("Error creating client", 101)
    /\ UNCHANGED env
    /\ UNCHANGED handlerVars

\* main, line 138: client.start() connects to the gateway and runs.
MainStart ==
    /\ mainPc = "start"
    /\ mainPc' = "running"
    /\ gateway' = gateway + 1
    /\ UNCHANGED <<env, exitCode, stdout, bot>>
    /\ UNCHANGED handlerVars

\* main, lines 138-141: client.start() returns an error.
MainClientError ==
    /\ mainPc \in {"running", "ready"}
    /\ Exit("Client error", 1)
    /\ UNCHANGED <<env, bot, gateway>>
    /\ UNCHANGED handlerVars

\* Bot::ready, lines 103-105: READY is the first event of a gateway session,
\* message events follow it.
Ready ==
    /\ mainPc = "running"
    /\ mainPc' = "ready"
    /\ stdout' = stdout \cup {"is connected!"}
    /\ UNCHANGED <<env, exitCode, bot, gateway>>
    /\ UNCHANGED handlerVars

\* The process is up: client.start() has not returned.
Alive == mainPc \in {"running", "ready"}

\* ----------------------------------------------------------- Bot::ask_gpt

\* lines 54-64: headers and JSON body of the request
Request(message) ==
    [url |-> ENDPOINT,
     content_type |-> "application/json",
     authorization |-> <<"Bearer", bot.openai_token>>,
     body |-> [model |-> MODEL, messages |-> <<message>>]]

\* `output.choices[0]`, line 75
FirstChoiceMut(choices) == choices[Len(choices)]
FirstChoice(choices) == choices[1]

\* lines 74-75: what ask_gpt does with the body json() read.  The `?` returns
\* the decode error, indexing an empty `choices` panics, otherwise the message
\* of the first choice is returned.  The status of the response is not read.
Output(b) ==
    IF ~b.parsed THEN [kind |-> "Err", error |-> "decode"]
    ELSE IF b.choices = <<>> THEN [kind |-> "panic"]
    ELSE [kind |-> "Ok", message |-> FirstChoice(b.choices).message]

\* ----------------------------------------------------------- Bot::message

\* `msg.author.bot`, line 82
IsBotAuthorMut(m) == FALSE
IsBotAuthor(m) == m.author_bot

\* lines 86-89
UserMessageMut(m) == GPTMessage("user", "")
UserMessage(m) == GPTMessage("user", m.content)

\* the scrutinee of the match at line 91, as seen by invocation i
ResponseForMut(i) ==
    LET others == {j \in MsgIds : result[j].kind # "none"}
    IN  result[CHOOSE j \in others : \A k \in others : j <= k]
ResponseFor(i) == result[i]

\* lines 92-99: the text handed to msg.reply
ReplyTextLeak(r) == IF r.kind = "Ok" THEN r.message.content ELSE r.error
ReplyTextAlwaysFallback(r) == ERROR_MESSAGE
ReplyText(r) == IF r.kind = "Ok" THEN r.message.content ELSE ERROR_MESSAGE

\* `.await.unwrap()` on the reply, lines 95 and 98
UnwrapMut(sent) == IF sent THEN "done" ELSE "reply"
Unwrap(sent) == IF sent THEN "done" ELSE "panicked_unwrap"

\* The gateway dispatches a message event to the handler; ids follow the
\* order of arrival.
Dispatch(i, bot_flag, content) ==
    /\ mainPc = "ready"
    /\ pc[i] = "idle"
    /\ \A j \in MsgIds : j < i => pc[j] # "idle"
    /\ msg' = [msg EXCEPT ![i] = Message(i, bot_flag, content)]
    /\ pc' = [pc EXCEPT ![i] = "start"]
    /\ UNCHANGED <<calls, requests, response, body, result, replies>>
    /\ UNCHANGED mainVars

\* lines 82-91 and 54-72: filter, build the turn, call ask_gpt, which sends
\* the request and suspends.
MessageStart(i) ==
    /\ Alive
    /\ pc[i] = "start"
    /\ IF IsBotAuthor(msg[i])
       THEN /\ pc' = [pc EXCEPT ![i] = "returned"]
            /\ UNCHANGED <<calls, requests>>
       ELSE /\ calls' = [calls EXCEPT ![i] = Append(@, UserMessage(msg[i]))]
            /\ requests' = [requests EXCEPT ![i] = Append(@, Request(UserMessage(msg[i])))]
            /\ pc' = [pc EXCEPT ![i] = "await_send"]
    /\ UNCHANGED <<msg, response, body, result, replies>>
    /\ UNCHANGED mainVars

\* lines 66-72: send() resolves.  A transport error leaves ask_gpt through
\* the `?`; a Response of any status goes on to json().
SendDone(i, r) ==
    /\ Alive
    /\ pc[i] = "await_send"
    /\ IF r.kind = "network"
       THEN /\ result' = [result EXCEPT ![i] = [kind |-> "Err", error |-> "send"]]
            /\ pc' = [pc EXCEPT ![i] = "reply"]
            /\ UNCHANGED response
       ELSE /\ response' = [response EXCEPT ![i] = r]
            /\ pc' = [pc EXCEPT ![i] = "await_json"]
            /\ UNCHANGED result
    /\ UNCHANGED <<msg, calls, requests, body, replies>>
    /\ UNCHANGED mainVars

\* lines 74-75 and 91: json() consumes the Response and ask_gpt finishes.
JsonDone(i, b) ==
    /\ Alive
    /\ pc[i] = "await_json"
    /\ response' = [response EXCEPT ![i] = NoResponse]
    /\ body' = [body EXCEPT ![i] = b]
    /\ IF Output(b).kind = "panic"
       THEN /\ pc' = [pc EXCEPT ![i] = "panicked_index"]
            /\ UNCHANGED result
       ELSE /\ result' = [result EXCEPT ![i] = Output(b)]
            /\ pc' = [pc EXCEPT ![i] = "reply"]
    /\ UNCHANGED <<msg, calls, requests, replies>>
    /\ UNCHANGED mainVars

\* lines 92-99: msg.reply(..).await.unwrap(); `sent` is whether the gateway
\* accepted the reply.
Reply(i, sent) ==
    /\ Alive
    /\ pc[i] = "reply"
    /\ replies' = [replies EXCEPT ![i] =
                      Append(@, [to |-> msg[i].id,
                                 text |-> ReplyText(ResponseFor(i)),
                                 delivered |-> sent])]
    /\ pc' = [pc EXCEPT ![i] = Unwrap(sent)]
    /\ body' = [body EXCEPT ![i] = NoBody]
    /\ UNCHANGED <<msg, calls, requests, response, result>>
    /\ UNCHANGED mainVars

\* ---------------------------------------------------------- specification

Init ==
    /\ env \in EnvValues
    /\ mainPc = "check_discord"
    /\ exitCode = 0
    /\ stdout = {}
    /\ bot = NoBot
    /\ gateway = 0
    /\ msg = [i \in MsgIds |-> NoMsg]
    /\ pc = [i \in MsgIds |-> "idle"]
    /\ calls = [i \in MsgIds |-> <<>>]
    /\ requests = [i \in MsgIds |-> <<>>]
    /\ response = [i \in MsgIds |-> NoResponse]
    /\ body = [i \in MsgIds |-> NoBody]
    /\ result = [i \in MsgIds |-> NoResult]
    /\ replies = [i \in MsgIds |-> <<>>]

Next ==
    \/ MainCheckDiscord
    \/ MainCheckOpenai
    \/ \E ok \in BOOLEAN : MainBuild(ok)
    \/ MainStart
    \/ MainClientError
    \/ Ready
    \/ \E i \in MsgIds, b \in BOOLEAN, c \in Contents : Dispatch(i, b, c)
    \/ \E i \in MsgIds : MessageStart(i)
    \/ \E i \in MsgIds, r \in SendResults : SendDone(i, r)
    \/ \E i \in MsgIds, b \in Bodies : JsonDone(i, b)
    \/ \E i \in MsgIds, sent \in BOOLEAN : Reply(i, sent)

Spec == Init /\ [][Next]_vars

\* The startup steps of main run to completion: main is a sequential program
\* that nothing suspends before the gateway client is built.
FairSpec == Spec /\ WF_vars(MainCheckDiscord) /\ WF_vars(MainCheckOpenai)

\* ------------------------------------------------------------- properties

\* Invocation i has been handed a message.
Handled(i) == msg[i].kind = "message"

\* The local state of invocation i.
Local(i) ==
    <<msg[i], pc[i], calls[i], requests[i], response[i], body[i], result[i], replies[i]>>

\* C1: a message whose author is a bot causes no completion call, no HTTP
\* request and no reply, whatever the other invocations are doing.
C1_BotAuthorIgnored ==
    \A i \in MsgIds :
        (Handled(i) /\ msg[i].author_bot) =>
            /\ calls[i] = <<>>
            /\ requests[i] = <<>>
            /\ replies[i] = <<>>
            /\ pc[i] \in {"start", "returned"}

\* A bot-authored message has been discarded while another invocation has a
\* request in flight.
C1_Witness ==
    \E i, j \in MsgIds :
        /\ i # j
        /\ Handled(i) /\ msg[i].author_bot /\ pc[i] = "returned"
        /\ pc[j] \in {"await_send", "await_json"}

\* C2: a message whose author is not a bot causes exactly one ask_gpt call and
\* exactly one HTTP request, carrying the single turn (user, text of the
\* message); no outcome makes the handler send a second request.
C2_OneCallOneTurn ==
    \A i \in MsgIds :
        (Handled(i) /\ ~msg[i].author_bot) =>
            IF pc[i] = "start"
            THEN calls[i] = <<>> /\ requests[i] = <<>>
            ELSE /\ calls[i] = <<[role |-> "user", content |-> msg[i].content]>>
                 /\ Len(requests[i]) = 1
                 /\ requests[i][1].body.messages
                        = <<[role |-> "user", content |-> msg[i].content]>>

\* An invocation has finished after its request failed on the network, and
\* another one, for another text, after a body that did not deserialize.
C2_Witness ==
    \E i, j \in MsgIds :
        /\ pc[i] = "done" /\ result[i].kind = "Err" /\ result[i].error = "send"
        /\ pc[j] = "done" /\ result[j].kind = "Err" /\ result[j].error = "decode"
        /\ msg[i].content # msg[j].content

\* C3: when ask_gpt returns Err the handler calls reply exactly once, with the
\* text ERROR_MESSAGE, whichever error it was.
C3_FallbackOnErr ==
    \A i \in MsgIds :
        result[i].kind = "Err" =>
            IF pc[i] = "reply"
            THEN replies[i] = <<>>
            ELSE /\ Len(replies[i]) = 1
                 /\ replies[i][1].text = ERROR_MESSAGE
                 /\ replies[i][1].to = msg[i].id

\* Two invocations failed differently (transport error; a body that does not
\* deserialize) and both replied.
C3_Witness ==
    \E i, j \in MsgIds :
        /\ pc[i] = "done" /\ result[i].kind = "Err" /\ result[i].error = "send"
        /\ pc[j] = "done" /\ result[j].kind = "Err" /\ result[j].error = "decode"
        /\ replies[i][1].text = replies[j][1].text

\* C4: when ask_gpt returns Ok with text T the handler calls reply exactly
\* once, on its own message, with the text T and not the fallback.
C4_ReplyOnOk ==
    \A i \in MsgIds :
        result[i].kind = "Ok" =>
            IF pc[i] = "reply"
            THEN replies[i] = <<>>
            ELSE /\ Len(replies[i]) = 1
                 /\ replies[i][1].text = result[i].message.content
                 /\ replies[i][1].text # ERROR_MESSAGE
                 /\ replies[i][1].to = msg[i].id

\* A successful completion has been relayed and delivered.
C4_Witness ==
    \E i \in MsgIds :
        /\ pc[i] = "done" /\ result[i].kind = "Ok"
        /\ replies[i][1].delivered

\* C5: when the Response has a non-2xx status, ask_gpt does not return Ok (the
\* result the handler answers with the text of the response), whatever body
\* json() reads.
C5_NonSuccessStatusIsErr ==
    [][\A i \in MsgIds :
          (response[i].kind = "response" /\ response[i].status \notin 200..299) =>
              result'[i].kind # "Ok"]_vars

\* C6: a response that deserializes with an empty `choices` array makes
\* ask_gpt return Err, and the invocation goes on to the fallback reply.
C6_EmptyChoicesIsErr ==
    \A i \in MsgIds :
        (/\ body[i].kind = "body"
         /\ body[i].parsed
         /\ body[i].choices = <<>>) =>
            /\ result[i].kind = "Err"
            /\ pc[i] = "reply"

\* Invocation i holds a deserialized response with at least one choice.
C7_HasChoice(i) ==
    /\ body[i].kind = "body"
    /\ body[i].parsed
    /\ Len(body[i].choices) >= 1

\* C7: for a deserialized response with at least one choice, ask_gpt returns
\* the message of the first choice, and the reply that follows carries its
\* content.
C7_FirstChoiceWins ==
    /\ [](\A i \in MsgIds :
            C7_HasChoice(i) =>
                result[i] = [kind |-> "Ok", message |-> body[i].choices[1].message])
    /\ [][\A i \in MsgIds :
            (C7_HasChoice(i) /\ replies'[i] # replies[i]) =>
                /\ Len(replies'[i]) = 1
                /\ replies'[i][1].text = body[i].choices[1].message.content]_vars

\* ask_gpt has returned for a response whose last choice differs from its
\* first.
C7_Witness ==
    \E i \in MsgIds :
        /\ pc[i] = "reply"
        /\ body[i].kind = "body" /\ body[i].parsed
        /\ Len(body[i].choices) >= 2
        /\ body[i].choices[1] # body[i].choices[Len(body[i].choices)]

\* One of the two required environment variables is absent.
C8_Missing == env.DISCORD_TOKEN = NotSet \/ env.OPENAI_TOKEN = NotSet

C8_Safe ==
    /\ C8_Missing =>
          /\ gateway = 0
          /\ bot = NoBot
          /\ \A i \in MsgIds : pc[i] = "idle"
          /\ mainPc \in {"check_discord", "check_openai", "exited"}
          /\ mainPc = "exited" => exitCode # 0
    /\ (gateway > 0 \/ bot # NoBot) => ~C8_Missing

\* C8: with a required environment variable absent the process exits with a
\* non-zero code, and before that it never goes to the gateway, builds no Bot
\* and handles no message; the gateway is reached only with both present.
C8_MissingVarExits ==
    /\ []C8_Safe
    /\ C8_Missing ~> (mainPc = "exited" /\ exitCode # 0)

\* Only the completion token is absent and the process has exited with code 1.
C8_Witness ==
    /\ env.DISCORD_TOKEN # NotSet
    /\ env.OPENAI_TOKEN = NotSet
    /\ mainPc = "exited"
    /\ exitCode = 1

\* What invocation i has to reply, from the result of its own call alone.
C9_OwnText(i) ==
    IF result[i].kind = "Ok" THEN result[i].message.content ELSE ERROR_MESSAGE

\* What the call of invocation i has to return, from its own response alone.
C9_OwnResult(i) ==
    IF body[i].kind = "none" THEN [kind |-> "Err", error |-> "send"]
    ELSE IF ~body[i].parsed THEN [kind |-> "Err", error |-> "decode"]
    ELSE [kind |-> "Ok", message |-> body[i].choices[1].message]

C9_Own ==
    \A i \in MsgIds :
        /\ \A k \in DOMAIN replies[i] :
               /\ replies[i][k].to = msg[i].id
               /\ replies[i][k].text = C9_OwnText(i)
        /\ pc[i] = "reply" => result[i] = C9_OwnResult(i)
        /\ \A k \in DOMAIN requests[i] :
               /\ requests[i][k].body.messages[1].content = msg[i].content
               /\ requests[i][k].authorization = <<"Bearer", env.OPENAI_TOKEN>>

\* C9: every reply goes to the invocation's own message with the text its own
\* outcome determines; a step of one invocation leaves the state of the others
\* alone; the Bot (token, HTTP client) never changes once built.
C9_Isolation ==
    /\ []C9_Own
    /\ [][\A i \in MsgIds : pc'[i] = pc[i] => Local(i)' = Local(i)]_vars
    /\ [][bot # NoBot => bot' = bot]_vars

\* Two invocations with different outcomes have both replied.
C9_Witness ==
    /\ pc[1] = "done" /\ result[1].kind = "Err"
    /\ pc[2] = "done" /\ result[2].kind = "Ok"
    /\ replies[1][1].text # replies[2][1].text

C10_AtMostOnce ==
    \A i \in MsgIds :
        /\ Len(replies[i]) <= 1
        /\ Len(requests[i]) <= 1
        /\ Len(calls[i]) <= 1
        /\ \A k \in DOMAIN replies[i] :
               ~replies[i][k].delivered => pc[i] = "panicked_unwrap"

\* C10: an invocation calls reply at most once; when the send fails the
\* invocation has panicked and does nothing more: no second reply, no fallback
\* after a failed normal reply, no further completion call.
C10_SendFailureIsFinal ==
    /\ []C10_AtMostOnce
    /\ [][\A i \in MsgIds : pc[i] = "panicked_unwrap" => Local(i)' = Local(i)]_vars

\* A normal reply failed to send and a fallback reply failed to send.
C10_Witness ==
    \E i, j \in MsgIds :
        /\ pc[i] = "panicked_unwrap" /\ result[i].kind = "Ok"
        /\ pc[j] = "panicked_unwrap" /\ result[j].kind = "Err"

====
